---- MODULE Spec2Model ----
(***************************************************************************)
(* Solar Hydrogen Techno-Economic Model (Solar-Hydrogen-Model-by-Sohel.py) *)
(*                                                                         *)
(* The program is one Streamlit script.  Every interaction with a widget   *)
(* (the navigation radio, a sidebar number input, the file uploader) runs  *)
(* the whole script again with the new widget values: one action of this   *)
(* module is one interaction together with the script run it triggers.     *)
(*                                                                         *)
(* Numbers.  The script computes in binary floating point; the model uses  *)
(* integers in fixed units:                                                *)
(*   money of the finance engine      thousand USD                         *)
(*   discount rates, CRF, PV factor   1/Scale (Scale = 10000)              *)
(*   annual hydrogen production       100 kg                               *)
(*   LCOH                             USD per 100 kg = cents per kg        *)
(*   payback                          tenths of a year                     *)
(*   sweep multipliers                1/MulScale (MulScale = 190)          *)
(*   energy                           kWh                                  *)
(*   tariffs                          cents per kWh, amounts in cents      *)
(*   emission factor                  1/100 kg CO2 per kWh                 *)
(* A quotient is rounded down where the script's float would be rounded to *)
(* nearest.  A division by zero is not evaluated: the script run records   *)
(* the ZeroDivisionError Python raises there.                              *)
(*                                                                         *)
(* Two sessions are explored.  Spec: the user moves between the five pages *)
(* and edits the CAPEX, O&M and revenue inputs, with no file uploaded.     *)
(* SpecLedger: the user stays on the Monthly EMS page, uploads and removes *)
(* tables and edits the two tariffs, the finance inputs on their presets.  *)
(***************************************************************************)
EXTENDS Integers, Sequences, FiniteSets, TLC

VARIABLES
    \* widget state (the script's inputs)
    menu, grid_tariff, export_tariff,
    solar_capex, electrolyzer_capex, fuel_cell_capex, storage_capex,
    annual_om_cost, annual_revenue, uploaded,
    \* what the last script run produced
    rendered,          \* the elements the page rendered, in order
    exception,         \* "none", or the exception that stopped the run
    calls,             \* the (function, rate, lifetime) of every crf/lcoh/npv call
    h2_passed,         \* the hydrogen production passed to every lcoh call
    summary,           \* Economic Summary: lcoh_8, lcoh_4, npv_8, npv_4, payback
    capex_range,       \* Sensitivity Analysis: the multipliers
    lcoh_sens,         \* Sensitivity Analysis: the LCOH at each multiplier
    error_columns,     \* the column names the st.error text lists
    df,                \* Monthly EMS: the table after the derived columns
    download,          \* Monthly EMS: the CSV offered for download
    positive_months    \* Monthly EMS: the count reported, -1 when none is

inputs == <<menu, grid_tariff, export_tariff, solar_capex, electrolyzer_capex,
            fuel_cell_capex, storage_capex, annual_om_cost, annual_revenue,
            uploaded>>
outputs == <<rendered, exception, calls, h2_passed, summary, capex_range,
             lcoh_sens, error_columns, df, download, positive_months>>
vars == <<inputs, outputs>>

-----------------------------------------------------------------------------
(* Bounds and units of the model *)

\* The uploaded tables have at most MaxRows rows.
MaxRows == 2

\* Fixed-point scale of rates and factors.
Scale == 100 * 100

\* Scale of the sweep multipliers: 0.7 = 133/190, 1.3 = 247/190, and the
\* step of 20 evenly spaced points is 6/190.
MulScale == 10 * 19

-----------------------------------------------------------------------------
(* Key constants and presets (lines 26-63) *)

Pages == << "Model Overview", "Economic Summary", "Sensitivity Analysis",
            "Monthly EMS & Cost-Profit", "Documentation / Important Documents" >>

project_lifetime == 20
annual_h2_production == 2088
wacc_baseline == 800
\* A financing scenario with no cost of capital
wacc_grant == wacc_baseline - wacc_baseline
wacc_concessional == 400
grid_emission_factor == 67

grid_tariff_preset == 12
export_tariff_preset == 8
solar_capex_preset == 4500
electrolyzer_capex_preset == 6000
fuel_cell_capex_preset == 1700
storage_capex_preset == 900
annual_om_cost_preset == 60
\* 679,549 USD, to the nearest thousand
annual_revenue_preset == 680

\* total_capex = solar_capex + electrolyzer_capex + fuel_cell_capex
\*               + storage_capex
TotalCapex(sc, ec, fc, stc) == sc + ec + fc + stc

\* annual_cashflow = annual_revenue - annual_om_cost
AnnualCashflow(rev, om) == rev - om

-----------------------------------------------------------------------------
(* Core financial functions (lines 69-77) *)

\* a / b where the script divides; the caller records the ZeroDivisionError
\* of b = 0 and does not use the value.
SafeDiv(a, b) == IF b = 0 THEN 0 ELSE a \div b

\* base ** n for n >= 0, base and result in 1/Scale
RECURSIVE PowScaled(_, _)
PowScaled(base, n) ==
    IF n = 0 THEN Scale ELSE (PowScaled(base, n - 1) * base) \div Scale

\* The divisor of crf: (1 + rate) ** n - 1
CrfDivisor(rate, n) == PowScaled(Scale + rate, n) - Scale

\* def crf(rate, n): rate * (1 + rate) ** n / ((1 + rate) ** n - 1)
crf(rate, n) ==
    SafeDiv(rate * PowScaled(Scale + rate, n), CrfDivisor(rate, n))

\* def lcoh(capex, om, rev, h2, rate):
\*     (capex * crf(rate, project_lifetime) + om - rev) / h2
\* thousand USD per 100 kg, times 1000: cents per kg
lcoh(capex, om, rev, h2, rate) ==
    SafeDiv(((capex * crf(rate, project_lifetime)) \div Scale + om - rev) * 1000,
            h2)

\* pv = (1 - (1 + rate) ** (-project_lifetime)) / rate
PvFactor(rate) ==
    SafeDiv((Scale - SafeDiv(Scale * Scale,
                             PowScaled(Scale + rate, project_lifetime))) * Scale,
            rate)

\* cashflow * pv + capex in the place of cashflow * pv - capex
npvCapexAdded(cashflow, capex, rate) ==
    (cashflow * PvFactor(rate)) \div Scale + capex

\* def npv(cashflow, capex, rate): cashflow * pv - capex
npv(cashflow, capex, rate) == (cashflow * PvFactor(rate)) \div Scale - capex

\* Python raises ZeroDivisionError in crf(rate, n)
CrfRaises(rate, n) == CrfDivisor(rate, n) = 0

\* ... in lcoh(capex, om, rev, h2, rate)
LcohRaises(h2, rate) == CrfRaises(rate, project_lifetime) \/ h2 = 0

\* ... in npv(cashflow, capex, rate): a zero base of the negative power, or rate = 0
NpvRaises(rate) ==
    PowScaled(Scale + rate, project_lifetime) = 0 \/ rate = 0

\* The calls one lcoh(..., rate) makes: itself and crf(rate, project_lifetime)
LcohCalls(rate) ==
    { [fn |-> "lcoh", rate |-> rate, n |-> project_lifetime],
      [fn |-> "crf", rate |-> rate, n |-> project_lifetime] }

NpvCalls(rate) == { [fn |-> "npv", rate |-> rate, n |-> project_lifetime] }

-----------------------------------------------------------------------------
(* What a script run leaves when a page does not produce it *)

NoSummary == [shown |-> FALSE, lcoh_8 |-> 0, lcoh_4 |-> 0, npv_8 |-> 0,
              npv_4 |-> 0, payback_nan |-> FALSE, payback_tenths |-> 0]

NoFile == [present |-> FALSE, frame |-> << >>]

NoFinance ==
    /\ calls' = {}
    /\ h2_passed' = {}
    /\ summary' = NoSummary
    /\ capex_range' = << >>
    /\ lcoh_sens' = << >>

NoLedger ==
    /\ error_columns' = << >>
    /\ df' = << >>
    /\ download' = << >>
    /\ positive_months' = -1

-----------------------------------------------------------------------------
(* Model Overview (lines 83-89) *)

ModelOverview ==
    /\ rendered' = << "metric", "metric", "metric", "footer" >>
    /\ exception' = "none"
    /\ NoFinance
    /\ NoLedger

-----------------------------------------------------------------------------
(* Economic Summary (lines 95-112) *)

\* payback = total_capex / annual_cashflow if annual_cashflow > 0 else np.nan
PaybackDefinedAtZero(annual_cashflow) == annual_cashflow >= 0

PaybackDefined(annual_cashflow) == annual_cashflow > 0

PaybackRaises(annual_cashflow) ==
    PaybackDefined(annual_cashflow) /\ annual_cashflow = 0

EconomicSummary(total_capex, annual_cashflow, om, rev) ==
    LET raises ==
            \/ LcohRaises(annual_h2_production, wacc_baseline)
            \/ LcohRaises(annual_h2_production, wacc_concessional)
            \/ NpvRaises(wacc_baseline)
            \/ NpvRaises(wacc_concessional)
            \/ PaybackRaises(annual_cashflow)
    IN  /\ calls' = LcohCalls(wacc_baseline) \cup LcohCalls(wacc_concessional)
                    \cup NpvCalls(wacc_baseline) \cup NpvCalls(wacc_concessional)
        /\ h2_passed' = {annual_h2_production}
        /\ exception' = IF raises THEN "ZeroDivisionError" ELSE "none"
        /\ summary' =
              IF raises THEN NoSummary
              ELSE [shown |-> TRUE,
                    lcoh_8 |-> lcoh(total_capex, om, rev,
                                    annual_h2_production, wacc_baseline),
                    lcoh_4 |-> lcoh(total_capex, om, rev,
                                    annual_h2_production, wacc_concessional),
                    npv_8 |-> npv(annual_cashflow, total_capex, wacc_baseline),
                    npv_4 |-> npv(annual_cashflow, total_capex, wacc_concessional),
                    payback_nan |-> ~PaybackDefined(annual_cashflow),
                    payback_tenths |->
                        IF PaybackDefined(annual_cashflow)
                        THEN SafeDiv(total_capex * 10, annual_cashflow)
                        ELSE 0]
        /\ rendered' =
              IF raises THEN << "exception" >>
              ELSE << "metric", "metric", "metric", "metric", "metric", "footer" >>
        /\ capex_range' = << >>
        /\ lcoh_sens' = << >>
        /\ NoLedger

-----------------------------------------------------------------------------
(* Sensitivity Analysis (lines 118-135) *)

\* np.linspace(start, stop, num) without its last point set to stop
linspaceOpen(start, stop, num) ==
    [i \in 1..num |-> start + (i - 1) * SafeDiv(stop - start, num)]

\* np.linspace(start, stop, num): step = (stop - start) / (num - 1),
\* y = arange(0, num) * step + start, and y[-1] = stop when num > 1
linspace(start, stop, num) ==
    [i \in 1..num |->
        IF i = num /\ num > 1 THEN stop
        ELSE start + (i - 1) * SafeDiv(stop - start, num - 1)]

\* capex_range = np.linspace(0.7, 1.3, 20)
CapexRange == linspace((7 * MulScale) \div 10, (13 * MulScale) \div 10, 20)

\* lcoh(total_capex * x, annual_om_cost, annual_revenue,
\*      annual_h2_production, wacc_baseline)
SweepPoint(total_capex, om, rev, x) ==
    lcoh((total_capex * x) \div MulScale, om, rev, annual_h2_production,
         wacc_baseline)

SensitivityAnalysis(total_capex, om, rev) ==
    LET raises == LcohRaises(annual_h2_production, wacc_baseline)
    IN  /\ calls' = LcohCalls(wacc_baseline)
        /\ h2_passed' = {annual_h2_production}
        /\ exception' = IF raises THEN "ZeroDivisionError" ELSE "none"
        /\ capex_range' = CapexRange
        /\ lcoh_sens' =
              IF raises THEN << >>
              ELSE [i \in 1..Len(CapexRange) |->
                        SweepPoint(total_capex, om, rev, CapexRange[i])]
        /\ rendered' = IF raises THEN << "exception" >>
                       ELSE << "pyplot", "footer" >>
        /\ summary' = NoSummary
        /\ NoLedger

-----------------------------------------------------------------------------
(* Documentation page (lines 202-221) *)

Documentation ==
    /\ rendered' = << "markdown", "footer" >>
    /\ exception' = "none"
    /\ NoFinance
    /\ NoLedger

-----------------------------------------------------------------------------
(* Monthly EMS + Cost-Profit + CO2 (lines 141-196) *)

(* A table (pandas DataFrame) is the sequence of its columns in column     *)
(* order, each [name, values] with one value per row.  The file's parser   *)
(* (pd.read_csv, pd.read_excel) gives distinct column names and at least   *)
(* one column; the cells of the demand and generation columns are numbers. *)

\* required = ["Month", "Electricity_Demand_kWh", "Solar_Generation_kWh"]
required == << "Month", "Electricity_Demand_kWh", "Solar_Generation_kWh" >>

\* The columns the branch assigns, in the order of its assignments
DerivedColumns == << "Grid_Import_kWh", "Grid_Export_kWh", "Import_Cost_USD",
                     "Export_Revenue_USD", "Net_Profit_USD",
                     "CO2_Emitted_kg", "CO2_Avoided_kg" >>

Range(s) == { s[i] : i \in 1..Len(s) }

\* df.columns
ColumnNames(frame) == [i \in 1..Len(frame) |-> frame[i].name]

\* c in df.columns
HasColumn(frame, name) == \E i \in 1..Len(frame) : frame[i].name = name

\* df[name], read
Column(frame, name) ==
    frame[CHOOSE i \in 1..Len(frame) : frame[i].name = name].values

\* len(df)
NumRows(frame) == IF Len(frame) = 0 THEN 0 ELSE Len(frame[1].values)

\* df[name] = values that drops an existing column and appends the new one
SetColumnAtEnd(frame, name, values) ==
    Append(SelectSeq(frame, LAMBDA c : c.name # name),
           [name |-> name, values |-> values])

\* df[name] = values: an existing column is replaced where it stands, a new
\* one is appended
SetColumn(frame, name, values) ==
    IF HasColumn(frame, name)
    THEN [i \in 1..Len(frame) |->
            IF frame[i].name = name
            THEN [name |-> name, values |-> values]
            ELSE frame[i]]
    ELSE Append(frame, [name |-> name, values |-> values])

\* a - b of two columns, element by element
Minus(a, b) == [i \in 1..Len(a) |-> a[i] - b[i]]

\* np.abs(a) in the place of np.maximum(a, 0)
Magnitude(a) == [i \in 1..Len(a) |-> IF a[i] > 0 THEN a[i] ELSE 0 - a[i]]

\* np.maximum.accumulate(np.maximum(a, 0)) in the place of np.maximum(a, 0)
RunningMaximum0(a) ==
    [i \in 1..Len(a) |->
        IF \E j \in 1..i : a[j] > 0
        THEN CHOOSE m \in { a[j] : j \in 1..i } :
                 \A j \in 1..i : a[j] <= m
        ELSE 0]

\* a in the place of np.maximum(a, 0)
Unclipped(a) == a

\* np.maximum(a, 0)
Maximum0(a) == [i \in 1..Len(a) |-> IF a[i] > 0 THEN a[i] ELSE 0]

\* a * k of a column and a scalar
Times(a, k) == [i \in 1..Len(a) |-> a[i] * k]

\* lines 156-164: the seven assignments, each reading the table the
\* assignments before it left
WithGrid(frame) ==
    LET f1 == SetColumn(frame, "Grid_Import_kWh",
                  Maximum0(Minus(Column(frame, "Electricity_Demand_kWh"),
                                 Column(frame, "Solar_Generation_kWh"))))
    IN  SetColumn(f1, "Grid_Export_kWh",
            Maximum0(Minus(Column(f1, "Solar_Generation_kWh"),
                           Column(f1, "Electricity_Demand_kWh"))))

WithMoney(frame, gt, et) ==
    LET f1 == SetColumn(frame, "Import_Cost_USD",
                        Times(Column(frame, "Grid_Import_kWh"), gt))
        f2 == SetColumn(f1, "Export_Revenue_USD",
                        Times(Column(f1, "Grid_Export_kWh"), et))
    IN  SetColumn(f2, "Net_Profit_USD",
                  Minus(Column(f2, "Export_Revenue_USD"),
                        Column(f2, "Import_Cost_USD")))

WithCO2(frame) ==
    LET f1 == SetColumn(frame, "CO2_Emitted_kg",
                        Times(Column(frame, "Grid_Import_kWh"),
                              grid_emission_factor))
    IN  SetColumn(f1, "CO2_Avoided_kg",
                  Times(Column(f1, "Grid_Export_kWh"), grid_emission_factor))

Ledger(frame, gt, et) == WithCO2(WithMoney(WithGrid(frame), gt, et))

\* df.to_csv(index=False): the header line, then one line per row
ToCsv(frame) ==
    << ColumnNames(frame) >>
    \o [r \in 1..NumRows(frame) |-> [i \in 1..Len(frame) |-> frame[i].values[r]]]

\* positive_months = (df["Net_Profit_USD"] > 0).sum()
PositiveMonths(frame) ==
    Cardinality({ r \in 1..NumRows(frame) :
                      Column(frame, "Net_Profit_USD")[r] > 0 })

\* any(c in df.columns for c in required)
AnyRequired(frame) == \E k \in 1..Len(required) : HasColumn(frame, required[k])

\* all(c in df.columns for c in required)
AllRequired(frame) == \A k \in 1..Len(required) : HasColumn(frame, required[k])

\* The text of st.error, as the column names it lists, when it lists the
\* columns that are missing
MissingColumnsListed(frame) ==
    SelectSeq(required, LAMBDA c : ~HasColumn(frame, c))

\* "Required columns: Month, Electricity_Demand_kWh, Solar_Generation_kWh"
ErrorColumns(frame) == required

MonthlyEMS(up, gt, et) ==
    /\ NoFinance
    /\ IF ~up.present
       THEN \* if uploaded: is false
            /\ rendered' = << "file_uploader", "footer" >>
            /\ exception' = "none"
            /\ NoLedger
       ELSE IF ~AllRequired(up.frame)
       THEN /\ rendered' = << "file_uploader", "error", "footer" >>
            /\ exception' = "none"
            /\ error_columns' = ErrorColumns(up.frame)
            /\ df' = << >>
            /\ download' = << >>
            /\ positive_months' = -1
       ELSE IF ~(HasColumn(up.frame, "Electricity_Demand_kWh")
                 /\ HasColumn(up.frame, "Solar_Generation_kWh"))
       THEN \* df[...] of line 156 raises
            /\ rendered' = << "file_uploader", "exception" >>
            /\ exception' = "KeyError"
            /\ NoLedger
       ELSE LET out == Ledger(up.frame, gt, et)
            IN  /\ error_columns' = << >>
                /\ df' = out
                /\ download' = ToCsv(out)
                /\ IF ~HasColumn(out, "Month")
                   THEN \* df["Month"] of line 175 raises
                        /\ rendered' = << "file_uploader", "dataframe",
                                          "download_button", "exception" >>
                        /\ exception' = "KeyError"
                        /\ positive_months' = -1
                   ELSE /\ rendered' = << "file_uploader", "dataframe",
                                          "download_button", "pyplot", "pyplot",
                                          "markdown", "footer" >>
                        /\ exception' = "none"
                        /\ positive_months' = PositiveMonths(out)

-----------------------------------------------------------------------------
(* One run of the script (lines 26-233) with the widget values given *)

Script(m, gt, et, sc, ec, fc, stc, om, rev, up) ==
    /\ menu' = m
    /\ grid_tariff' = gt
    /\ export_tariff' = et
    /\ solar_capex' = sc
    /\ electrolyzer_capex' = ec
    /\ fuel_cell_capex' = fc
    /\ storage_capex' = stc
    /\ annual_om_cost' = om
    /\ annual_revenue' = rev
    /\ uploaded' = up
    /\ LET total_capex == TotalCapex(sc, ec, fc, stc)
           annual_cashflow == AnnualCashflow(rev, om)
       IN  CASE m = Pages[1] -> ModelOverview
             [] m = Pages[2] -> EconomicSummary(total_capex, annual_cashflow,
                                                om, rev)
             [] m = Pages[3] -> SensitivityAnalysis(total_capex, om, rev)
             [] m = Pages[4] -> MonthlyEMS(up, gt, et)
             [] m = Pages[5] -> Documentation

-----------------------------------------------------------------------------
(* The values the widgets are given *)

\* Grid import tariff and grid export price, cents per kWh
Tariffs == { export_tariff_preset, grid_tariff_preset }

\* A CAPEX component: nothing, or its preset
CapexChoices(preset) == { 0, preset }

\* Annual O&M cost and annual revenue: the cash flow is negative, zero or
\* positive
FlowChoices == { 0, annual_om_cost_preset, annual_revenue_preset }

\* Demand and generation of one month
KWh == { 0, 2 }

MonthNames == << "Jan", "Feb", "Mar", "Apr" >>

\* Columns a table may carry besides the required ones: one the script does
\* not know, and one named like a column the script derives
OtherColumns == { "Notes", "Grid_Export_kWh" }

AllColumns == Range(required) \cup OtherColumns

\* Every choice and order of distinct column names, at least one
Headers ==
    { h \in UNION { [1..k -> AllColumns] : k \in 1..Cardinality(AllColumns) } :
        \A i, j \in 1..Len(h) : h[i] = h[j] => i = j }

\* The cells of column `name` in a table of n rows
Cells(name, n, demand, generation) ==
    CASE name = "Month" -> SubSeq(MonthNames, 1, n)
      [] name = "Electricity_Demand_kWh" -> demand
      [] name = "Solar_Generation_kWh" -> generation
      [] name = "Notes" -> [r \in 1..n |-> "note"]
      [] name = "Grid_Export_kWh" -> [r \in 1..n |-> 7]

Table(h, n, demand, generation) ==
    [present |-> TRUE,
     frame |-> [i \in 1..Len(h) |->
                   [name |-> h[i],
                    values |-> Cells(h[i], n, demand, generation)]]]

-----------------------------------------------------------------------------
(* The first run: the radio on its first option, every input on its preset *)

Init ==
    /\ menu = Pages[1]
    /\ grid_tariff = grid_tariff_preset
    /\ export_tariff = export_tariff_preset
    /\ solar_capex = solar_capex_preset
    /\ electrolyzer_capex = electrolyzer_capex_preset
    /\ fuel_cell_capex = fuel_cell_capex_preset
    /\ storage_capex = storage_capex_preset
    /\ annual_om_cost = annual_om_cost_preset
    /\ annual_revenue = annual_revenue_preset
    /\ uploaded = NoFile
    /\ rendered = << "metric", "metric", "metric", "footer" >>
    /\ exception = "none"
    /\ calls = {}
    /\ h2_passed = {}
    /\ summary = NoSummary
    /\ capex_range = << >>
    /\ lcoh_sens = << >>
    /\ error_columns = << >>
    /\ df = << >>
    /\ download = << >>
    /\ positive_months = -1

-----------------------------------------------------------------------------
(* Interactions *)

\* The navigation radio.  The file uploader belongs to the Monthly EMS
\* branch: a run of another page has no uploaded file.
SelectMenu ==
    \E m \in Range(Pages) :
        /\ m # menu
        /\ Script(m, grid_tariff, export_tariff, solar_capex,
                  electrolyzer_capex, fuel_cell_capex, storage_capex,
                  annual_om_cost, annual_revenue, NoFile)

SetGridTariff ==
    \E v \in Tariffs :
        /\ v # grid_tariff
        /\ Script(menu, v, export_tariff, solar_capex, electrolyzer_capex,
                  fuel_cell_capex, storage_capex, annual_om_cost,
                  annual_revenue, uploaded)

SetExportTariff ==
    \E v \in Tariffs :
        /\ v # export_tariff
        /\ Script(menu, grid_tariff, v, solar_capex, electrolyzer_capex,
                  fuel_cell_capex, storage_capex, annual_om_cost,
                  annual_revenue, uploaded)

SetSolarCapex ==
    \E v \in CapexChoices(solar_capex_preset) :
        /\ v # solar_capex
        /\ Script(menu, grid_tariff, export_tariff, v, electrolyzer_capex,
                  fuel_cell_capex, storage_capex, annual_om_cost,
                  annual_revenue, uploaded)

SetElectrolyzerCapex ==
    \E v \in CapexChoices(electrolyzer_capex_preset) :
        /\ v # electrolyzer_capex
        /\ Script(menu, grid_tariff, export_tariff, solar_capex, v,
                  fuel_cell_capex, storage_capex, annual_om_cost,
                  annual_revenue, uploaded)

SetFuelCellCapex ==
    \E v \in CapexChoices(fuel_cell_capex_preset) :
        /\ v # fuel_cell_capex
        /\ Script(menu, grid_tariff, export_tariff, solar_capex,
                  electrolyzer_capex, v, storage_capex, annual_om_cost,
                  annual_revenue, uploaded)

SetStorageCapex ==
    \E v \in CapexChoices(storage_capex_preset) :
        /\ v # storage_capex
        /\ Script(menu, grid_tariff, export_tariff, solar_capex,
                  electrolyzer_capex, fuel_cell_capex, v, annual_om_cost,
                  annual_revenue, uploaded)

SetAnnualOmCost ==
    \E v \in FlowChoices :
        /\ v # annual_om_cost
        /\ Script(menu, grid_tariff, export_tariff, solar_capex,
                  electrolyzer_capex, fuel_cell_capex, storage_capex, v,
                  annual_revenue, uploaded)

SetAnnualRevenue ==
    \E v \in FlowChoices :
        /\ v # annual_revenue
        /\ Script(menu, grid_tariff, export_tariff, solar_capex,
                  electrolyzer_capex, fuel_cell_capex, storage_capex,
                  annual_om_cost, v, uploaded)

\* st.file_uploader: a file is chosen
UploadFile ==
    /\ menu = Pages[4]
    /\ ~uploaded.present
    /\ \E h \in Headers, n \in 0..MaxRows :
          \E demand \in [1..n -> KWh], generation \in [1..n -> KWh] :
              Script(menu, grid_tariff, export_tariff, solar_capex,
                     electrolyzer_capex, fuel_cell_capex, storage_capex,
                     annual_om_cost, annual_revenue,
                     Table(h, n, demand, generation))

\* st.file_uploader: the file is removed
RemoveFile ==
    /\ menu = Pages[4]
    /\ uploaded.present
    /\ Script(menu, grid_tariff, export_tariff, solar_capex,
              electrolyzer_capex, fuel_cell_capex, storage_capex,
              annual_om_cost, annual_revenue, NoFile)

\* A session over the pages and the finance inputs, no file uploaded
Next ==
    \/ SelectMenu
    \/ SetSolarCapex
    \/ SetElectrolyzerCapex
    \/ SetFuelCellCapex
    \/ SetStorageCapex
    \/ SetAnnualOmCost
    \/ SetAnnualRevenue

Spec == Init /\ [][Next]_vars

\* The run that follows the choice of the Monthly EMS page on the first run
InitLedger ==
    /\ menu = Pages[4]
    /\ grid_tariff = grid_tariff_preset
    /\ export_tariff = export_tariff_preset
    /\ solar_capex = solar_capex_preset
    /\ electrolyzer_capex = electrolyzer_capex_preset
    /\ fuel_cell_capex = fuel_cell_capex_preset
    /\ storage_capex = storage_capex_preset
    /\ annual_om_cost = annual_om_cost_preset
    /\ annual_revenue = annual_revenue_preset
    /\ uploaded = NoFile
    /\ rendered = << "file_uploader", "footer" >>
    /\ exception = "none"
    /\ calls = {}
    /\ h2_passed = {}
    /\ summary = NoSummary
    /\ capex_range = << >>
    /\ lcoh_sens = << >>
    /\ error_columns = << >>
    /\ df = << >>
    /\ download = << >>
    /\ positive_months = -1

\* A session on the Monthly EMS page: its file and the two tariffs, the
\* finance inputs on their presets
NextLedger ==
    \/ SetGridTariff
    \/ SetExportTariff
    \/ UploadFile
    \/ RemoveFile

SpecLedger == InitLedger /\ [][NextLedger]_vars

-----------------------------------------------------------------------------
(* The state of a run, as the claims read it *)

total_capex ==
    TotalCapex(solar_capex, electrolyzer_capex, fuel_cell_capex, storage_capex)

annual_cashflow == AnnualCashflow(annual_revenue, annual_om_cost)

OnEconomicSummary == menu = Pages[2]
OnSensitivity == menu = Pages[3]

\* The required columns the uploaded table lacks
Missing ==
    { c \in Range(required) : ~HasColumn(uploaded.frame, c) }

\* The run had a table that lacks a required column
Rejected == menu = Pages[4] /\ uploaded.present /\ Missing # {}

\* The run had a table with every required column
Accepted == menu = Pages[4] /\ uploaded.present /\ Missing = {}

Rows == 1..NumRows(uploaded.frame)
Demand(r) == Column(uploaded.frame, "Electricity_Demand_kWh")[r]
Generation(r) == Column(uploaded.frame, "Solar_Generation_kWh")[r]
GridImport(r) == Column(df, "Grid_Import_kWh")[r]
GridExport(r) == Column(df, "Grid_Export_kWh")[r]

Max0(x) == IF x > 0 THEN x ELSE 0

\* The place of a name in a sequence of distinct names
Position(names, c) == CHOOSE i \in 1..Len(names) : names[i] = c

\* The names of `fields` that `names` holds stand in the order of `fields`
InOrder(fields, names) ==
    \A i, j \in 1..Len(fields) :
        (i < j /\ fields[i] \in Range(names) /\ fields[j] \in Range(names))
            => Position(names, fields[i]) < Position(names, fields[j])

TenFields == required \o DerivedColumns

-----------------------------------------------------------------------------
(* Monthly EMS: validation (checked under SpecLedger) *)

\* C1: a table that lacks a required column is rejected with an error, and
\* the run computes no derived column, shows no table, offers no download
\* and reports no positive-months count.
C1_RejectedBeforeLedger ==
    Rejected =>
        /\ exception = "none"
        /\ "error" \in Range(rendered)
        /\ error_columns # << >>
        /\ df = << >>
        /\ download = << >>
        /\ positive_months = -1
        /\ Range(rendered) \cap { "dataframe", "download_button", "pyplot",
                                  "markdown" } = {}

\* A table with some of the required columns, not all, was rejected.
C1_Witness ==
    /\ Rejected
    /\ Cardinality(Missing) < Len(required)
    /\ "error" \in Range(rendered)

\* C5, as claimed: the error names the columns that are missing, so that
\* different sets of missing columns give different errors.
C5_ErrorNamesTheMissing ==
    Rejected => Range(error_columns) = Missing

\* C5, amended: the error is one fixed text that lists the three required
\* columns, whichever of them are missing; it names every missing column
\* and is the same for every set of missing columns.
C5_ErrorListsAllRequired ==
    Rejected =>
        /\ error_columns = required
        /\ Missing \subseteq Range(error_columns)

\* A table missing only Solar_Generation_kWh got the error that lists all
\* three columns.
C5_Witness ==
    /\ Rejected
    /\ Missing = { "Solar_Generation_kWh" }
    /\ Len(error_columns) = Len(required)

-----------------------------------------------------------------------------
(* Monthly EMS: the ledger (checked under SpecLedger) *)

\* C2, as claimed: in every record exactly one of grid import and grid
\* export is nonzero.
C2_ExactlyOneNonzero ==
    Accepted =>
        \A r \in Rows : (GridImport(r) # 0) # (GridExport(r) # 0)

\* C2, amended: in every record at most one of grid import and grid export
\* is nonzero, and both are zero exactly when demand equals generation.
C2_AtMostOneNonzero ==
    Accepted =>
        \A r \in Rows :
            /\ GridImport(r) = 0 \/ GridExport(r) = 0
            /\ (GridImport(r) = 0 /\ GridExport(r) = 0)
                   <=> (Demand(r) = Generation(r))

\* A ledger with a month of equal demand and generation (both zero there)
\* and a month of different ones.
C2_Witness ==
    /\ Accepted
    /\ \E r \in Rows : Demand(r) = Generation(r) /\ Demand(r) > 0
                       /\ GridImport(r) = 0 /\ GridExport(r) = 0
    /\ \E r \in Rows : Demand(r) # Generation(r)

\* C3: in every record grid_import - grid_export = demand - generation,
\* grid_import = max(demand - generation, 0) and
\* grid_export = max(generation - demand, 0).
C3_ImportMinusExport ==
    Accepted =>
        \A r \in Rows :
            /\ GridImport(r) - GridExport(r) = Demand(r) - Generation(r)
            /\ GridImport(r) = Max0(Demand(r) - Generation(r))
            /\ GridExport(r) = Max0(Generation(r) - Demand(r))

\* A ledger with a month of deficit and a month of surplus.
C3_Witness ==
    /\ Accepted
    /\ \E r \in Rows : Demand(r) > Generation(r) /\ GridImport(r) > 0
    /\ \E r \in Rows : Demand(r) < Generation(r) /\ GridExport(r) > 0

\* C8: the output has the records of the input in the input's order, the
\* Month, demand and generation of each record unchanged, and every derived
\* field of record r is a function of record r's demand and generation, the
\* two tariffs and the emission factor alone.
C8_RecordwiseLedger ==
    Accepted =>
        /\ \A i \in 1..Len(df) : Len(df[i].values) = NumRows(uploaded.frame)
        /\ \A k \in 1..Len(required) :
              Column(df, required[k]) = Column(uploaded.frame, required[k])
        /\ \A r \in Rows :
              LET imp == Max0(Demand(r) - Generation(r))
                  exp == Max0(Generation(r) - Demand(r))
              IN  /\ GridImport(r) = imp
                  /\ GridExport(r) = exp
                  /\ Column(df, "Import_Cost_USD")[r] = imp * grid_tariff
                  /\ Column(df, "Export_Revenue_USD")[r] = exp * export_tariff
                  /\ Column(df, "Net_Profit_USD")[r]
                        = exp * export_tariff - imp * grid_tariff
                  /\ Column(df, "CO2_Emitted_kg")[r] = imp * grid_emission_factor
                  /\ Column(df, "CO2_Avoided_kg")[r] = exp * grid_emission_factor
        /\ positive_months
              = Cardinality({ r \in Rows :
                    Max0(Generation(r) - Demand(r)) * export_tariff
                        > Max0(Demand(r) - Generation(r)) * grid_tariff })

\* A ledger of two months, a deficit followed by a surplus.
C8_Witness ==
    /\ Accepted
    /\ NumRows(uploaded.frame) >= 2
    /\ Demand(1) > Generation(1)
    /\ Demand(2) < Generation(2)
    /\ GridImport(2) = 0
    /\ positive_months = 1

\* C9, as claimed: for every accepted table the ten fields stand in the
\* order Month, demand, generation, grid import, grid export, import cost,
\* export revenue, net profit, CO2 emitted, CO2 avoided, in the table and in
\* the CSV, and the other input columns pass through unchanged.
C9_StableColumnOrder ==
    Accepted =>
        /\ InOrder(TenFields, ColumnNames(df))
        /\ InOrder(TenFields, download[1])
        /\ \A i \in 1..Len(uploaded.frame) :
              uploaded.frame[i].name \notin Range(TenFields)
                  => Column(df, uploaded.frame[i].name)
                         = uploaded.frame[i].values

\* C9, amended: the output keeps the input's columns in the input's order
\* and appends, in the order of the derived fields, those the input did not
\* carry (a column already named like a derived field stays in its place
\* and gets the derived values); the CSV has that column order; every input
\* column not named like a derived field passes through unchanged; and the
\* ten fields stand in the stated order when the input lists Month, demand
\* and generation in that order and has no column named like a derived
\* field.
C9_InputOrderThenDerived ==
    Accepted =>
        LET given == ColumnNames(uploaded.frame)
        IN  /\ ColumnNames(df)
                  = given \o SelectSeq(DerivedColumns,
                                       LAMBDA c : c \notin Range(given))
            /\ download[1] = ColumnNames(df)
            /\ Len(download) = 1 + NumRows(uploaded.frame)
            /\ \A i \in 1..Len(given) :
                  given[i] \notin Range(DerivedColumns)
                      => df[i].values = uploaded.frame[i].values
            /\ (InOrder(required, given)
                  /\ Range(given) \cap Range(DerivedColumns) = {})
                  => (InOrder(TenFields, ColumnNames(df))
                        /\ InOrder(TenFields, download[1]))

\* An accepted table with an extra column between the required ones, in
\* their order, and its ledger with the ten fields in the stated order.
C9_Witness ==
    /\ Accepted
    /\ NumRows(uploaded.frame) >= 1
    /\ ColumnNames(uploaded.frame)
          = << "Month", "Notes", "Electricity_Demand_kWh",
               "Solar_Generation_kWh" >>
    /\ Len(df) = Len(TenFields) + 1
    /\ InOrder(TenFields, download[1])

-----------------------------------------------------------------------------
(* Finance engine (checked under Spec) *)

\* C4: the payback period is total_capex / annual_cashflow when the cash
\* flow is positive and the undefined value (NaN) for every cash flow <= 0,
\* zero included; computing and reporting it raises nothing and divides by
\* zero nowhere.
C4_PaybackOrUndefined ==
    OnEconomicSummary =>
        /\ exception = "none"
        /\ summary.shown
        /\ "exception" \notin Range(rendered)
        /\ annual_cashflow > 0 =>
              /\ ~summary.payback_nan
              /\ summary.payback_tenths * annual_cashflow <= total_capex * 10
              /\ total_capex * 10 < (summary.payback_tenths + 1) * annual_cashflow
        /\ annual_cashflow <= 0 => summary.payback_nan

\* The Economic Summary with a cash flow of exactly zero: payback undefined,
\* the five metrics rendered.
C4_Witness ==
    /\ OnEconomicSummary
    /\ annual_cashflow = 0
    /\ total_capex > 0
    /\ summary.shown
    /\ summary.payback_nan
    /\ Len(rendered) = 6

\* C6: the sweep is a sequence of (multiplier, LCOH) pairs, the multipliers
\* evenly spaced over [1 - 30%, 1 + 30%] with both ends and 20 entries as
\* the page passes them to linspace (20%, 20% and 7 entries give 0.80,
\* 0.867, 0.933, 1.0, 1.067, 1.133, 1.20), each LCOH evaluated with
\* total_capex times the multiplier and with O&M cost, revenue, hydrogen
\* production, the baseline rate and the lifetime at their base values.
C6_SweepEvenlySpaced ==
    /\ [i \in 1..7 |-> (linspace(2400, 3600, 7)[i] * 1000 + 1500) \div 3000]
          = << 800, 867, 933, 1000, 1067, 1133, 1200 >>
    /\ OnSensitivity =>
          /\ exception = "none"
          /\ Len(capex_range) = 20
          /\ Len(lcoh_sens) = Len(capex_range)
          /\ capex_range[1] * 10 = 7 * MulScale
          /\ capex_range[Len(capex_range)] * 10 = 13 * MulScale
          /\ \A i \in 1..(Len(capex_range) - 1) :
                capex_range[i + 1] - capex_range[i]
                    = capex_range[2] - capex_range[1]
          /\ capex_range[2] > capex_range[1]
          /\ \A i \in 1..Len(capex_range) :
                lcoh_sens[i]
                    = (((((total_capex * capex_range[i]) \div MulScale)
                            * crf(wacc_baseline, project_lifetime)) \div Scale
                        + annual_om_cost - annual_revenue) * 1000)
                      \div annual_h2_production

\* The sweep of a positive total CAPEX: 20 values, rising with the
\* multiplier.
C6_Witness ==
    /\ OnSensitivity
    /\ total_capex > 0
    /\ Len(lcoh_sens) = 20
    /\ lcoh_sens[1] < lcoh_sens[20]

\* C7: every call of crf, lcoh and npv passes a discount rate > 0 with a
\* lifetime > 0, every call of lcoh a hydrogen production > 0, and no
\* divisor of the CRF, NPV and LCOH formulas is zero.
C7_DivisorsNonzero ==
    /\ \A c \in calls :
          /\ c.rate > 0
          /\ c.n > 0
          /\ c.n = project_lifetime
          /\ CrfDivisor(c.rate, c.n) # 0
          /\ PowScaled(Scale + c.rate, c.n) # 0
    /\ \A h \in h2_passed : h > 0
    /\ exception # "ZeroDivisionError"
    /\ (OnEconomicSummary \/ OnSensitivity) => calls # {} /\ h2_passed # {}

\* The Economic Summary made its six calls, at both rates.
C7_Witness ==
    /\ OnEconomicSummary
    /\ Cardinality(calls) = 6
    /\ { c.rate : c \in calls } = { wacc_baseline, wacc_concessional }
    /\ summary.shown

\* C10: with an annual cash flow of zero the net present value is exactly
\* -total_capex at every rate > 0; in general it is
\* annual_cashflow * (1 - (1 + rate) ** -lifetime) / rate - total_capex.
C10_NpvOfNoCashflow ==
    /\ OnEconomicSummary =>
          /\ summary.shown
          /\ summary.npv_8
                = (annual_cashflow * PvFactor(wacc_baseline)) \div Scale
                  - total_capex
          /\ summary.npv_4
                = (annual_cashflow * PvFactor(wacc_concessional)) \div Scale
                  - total_capex
          /\ annual_cashflow = 0 =>
                /\ summary.npv_8 = 0 - total_capex
                /\ summary.npv_4 = 0 - total_capex
    /\ \A pct \in 1..15 :
          npv(0, total_capex, pct * (Scale \div 100)) = 0 - total_capex

\* The Economic Summary of a positive total CAPEX with revenue equal to the
\* O&M cost.
C10_Witness ==
    /\ OnEconomicSummary
    /\ annual_cashflow = 0
    /\ annual_revenue > 0
    /\ total_capex > 0
    /\ summary.npv_8 = 0 - total_capex

====
